---- MODULE Spec2Model ----
(***************************************************************************)
(* Model of the cache-aware wrappers of nighres / cbstools-python:         *)
(*   nighres/intensity/flash_t2s_fitting.py                                *)
(*   nighres/intensity/mp2rage_t1_mapping.py                               *)
(*   nighres/intensity/lcpca_denoising.py                                  *)
(*   nighres/shape/levelset_fusion.py                                      *)
(* State: the file system (output files, directories), the process-wide    *)
(* native runtime, and for each caller the position of its current call,   *)
(* the native calls it made, what it printed and how it ended.             *)
(***************************************************************************)
EXTENDS Integers, Sequences, FiniteSets, TLC

VARIABLES files, dirs, vm, vmStarts, ncalls, ndeleted, serial, array,
          pc, args, run, native, printed, todo, outcome, exc, result, loaded

vars == <<files, dirs, vm, vmStarts, ncalls, ndeleted, serial, array,
          pc, args, run, native, printed, todo, outcome, exc, result, loaded>>

(* ------------------------------ bounds ---------------------------------- *)

\* number of calls made in one process
MaxCalls == 2
\* number of output files somebody deletes between the calls
MaxDeletes == 1
\* longest image_list (and phase_list) handed to lcpca_denoising
MaxImages == 2
\* largest extent of a volume along one axis
MaxDim == 3

Range(s) == {s[i] : i \in DOMAIN s}

(* --------------------------- callers, inputs ---------------------------- *)

Procs == {1, 2}
\* the callers that act under the sequential specification
SeqProcs == {1}

Functions == {"flash_t2s_fitting", "mp2rage_t1_mapping",
              "lcpca_denoising", "levelset_fusion"}

\* Python's None for output_dir and file_name
None == "None"

\* an input image file: its directory and the base name of the file
Magnitude(i) == [dir |-> "in", base |-> <<"mag", i>>]
Phase(i) == [dir |-> "in", base |-> <<"pha", i>>]

MagnitudeList(n) == [i \in 1..n |-> Magnitude(i)]
PhaseList(n) == [i \in 1..n |-> Phase(i)]

\* algorithm parameters (te_list, inversion_times, ngb_size, ...) as one token
Params == {1, 2}
\* the sessions give an output directory, which does not exist at first
OutputDirs == {"out"}
FileNames == {None, "fn"}

\* the lists of a call: image_list (levelset_images; for mp2rage_t1_mapping
\* first_inversion), phase_list with phase_none for "phase_list is None",
\* and te_list; with them correct_B1 of mp2rage_t1_mapping (B1_map given)
\* and topology_lut_dir of levelset_fusion, at their defaults
Lists(imgs, pnone, phs, tes) ==
    [image_list |-> imgs, phase_none |-> pnone, phase_list |-> phs,
     te_list |-> tes, correct_B1 |-> FALSE, topology_lut_dir |-> None]

\* a directory that does not exist, handed over as topology_lut_dir
NoLutDir == "nolut"

\* the lists the sessions call with; lcpca_denoising: one image or MaxImages
\* images, phase_list None or of one or MaxImages images
InputLists(fn) ==
    CASE fn = "lcpca_denoising" ->
            {Lists(MagnitudeList(n), TRUE, <<>>, <<>>) : n \in {1, MaxImages}}
            \cup {Lists(MagnitudeList(n), FALSE, PhaseList(k), <<>>) :
                     n \in {1, MaxImages}, k \in {1, MaxImages}}
      [] fn = "flash_t2s_fitting" ->
            {Lists(MagnitudeList(2), TRUE, <<>>, <<10, 20>>)}
      [] fn = "mp2rage_t1_mapping" ->
            {[Lists(MagnitudeList(2), TRUE, <<>>, <<>>) EXCEPT !.correct_B1 = b] :
                b \in BOOLEAN}
      [] fn = "levelset_fusion" ->
            {[Lists(MagnitudeList(2), TRUE, <<>>, <<>>)
                 EXCEPT !.topology_lut_dir = d] : d \in {None, NoLutDir}}
      [] OTHER -> {Lists(MagnitudeList(2), TRUE, <<>>, <<>>)}

\* the arguments of a call
ArgsOf(fn, il, sd, ow, od, fname, par) ==
    [fn |-> fn, image_list |-> il.image_list, phase_none |-> il.phase_none,
     phase_list |-> il.phase_list, te_list |-> il.te_list,
     correct_B1 |-> il.correct_B1, topology_lut_dir |-> il.topology_lut_dir,
     save_data |-> sd, overwrite |-> ow, output_dir |-> od,
     file_name |-> fname, par |-> par]

ArgSet ==
    UNION {{ArgsOf(fn, il, sd, ow, od, fname, par) :
               il \in InputLists(fn), sd \in BOOLEAN, ow \in BOOLEAN,
               od \in OutputDirs, fname \in FileNames, par \in Params} :
           fn \in Functions}

\* the calls of a session that does not vary the algorithm parameters
Default == {a \in ArgSet : a.par = 1}

NoArgs == ArgsOf("none", Lists(<<>>, TRUE, <<>>, <<>>),
                 FALSE, FALSE, None, None, 1)

(* ------------------------------ utils ----------------------------------- *)

\* nighres.utils._output_dir_4saving: the directory the outputs go to
\* (the caller's output_dir, else the directory of the root file)
_output_dir_4saving(output_dir, rootfile) ==
    IF output_dir = None THEN rootfile.dir ELSE output_dir

\* nighres.utils._fname_4saving: <base-name>_<suffix>, the base name being
\* the file_name override or else the name of the root file
_fname_4saving(file_name, rootfile, suffix) ==
    [base |-> IF file_name = None THEN rootfile.base ELSE <<file_name, 0>>,
     suffix |-> suffix]

\* nighres.utils._check_topology_lut_dir: the default directory for None,
\* ValueError for a directory that does not exist (ds: the directories)
_check_topology_lut_dir(topology_lut_dir, ds) ==
    IF topology_lut_dir = None THEN "none"
    ELSE IF topology_lut_dir \notin ds THEN "ValueError"
    ELSE "none"

\* os.path.join(output_dir, file name)
join(output_dir, fname) ==
    [dir |-> output_dir, base |-> fname.base, suffix |-> fname.suffix]

(* ------------------------------ images ---------------------------------- *)

\* absence of a file
NoFile == [run |-> 0, key |-> "none", idx |-> 0, par |-> 0]

\* the image a computation produces for one output: the native library is
\* opaque, so each output of each run is a value of its own
Fresh(r, key, idx, par) == [run |-> r, key |-> key, idx |-> idx, par |-> par]

\* a file that save_volume has created and not yet written to its end: it
\* exists, and is not the image of any output
Torn(img) == [img EXCEPT !.key = "torn"]

\* os.path.isfile on the file system fs
isfile(fs, f) == fs[f] # NoFile

\* nighres.io.load_volume of a file: its content
load_volume(fs, f) == fs[f]

\* nighres.io.save_volume: the file holds the image afterwards
save_volume(fs, f, img) == [fs EXCEPT ![f] = img]

(* ------------------------------ arrays ---------------------------------- *)

\* the indices (i, j, k) of a volume of dimensions dims = (X, Y, Z)
Index(dims) == (0..dims[1] - 1) \X (0..dims[2] - 1) \X (0..dims[3] - 1)

\* data.size
Size(dims) == dims[1] * dims[2] * dims[3]

\* (mutant) data.flatten('C'): the last index changes fastest
flatten_C(data, dims) ==
    [n \in 1..Size(dims) |->
        data[<<(n - 1) \div (dims[2] * dims[3]),
               ((n - 1) \div dims[3]) % dims[2],
               (n - 1) % dims[3]>>]]

\* data.flatten('F'): the elements in column-major order, the first index
\* changing fastest
flatten_F(data, dims) ==
    [n \in 1..Size(dims) |->
        data[<<(n - 1) % dims[1],
               ((n - 1) \div dims[1]) % dims[2],
               (n - 1) \div (dims[1] * dims[2])>>]]

\* np.reshape(flat, dimensions, 'F'): the array of these dimensions read from
\* flat in column-major order; ValueError when the sizes differ
reshape_F(flat, dims) ==
    IF Len(flat) # Size(dims) THEN [raised |-> "ValueError", data |-> <<>>]
    ELSE [raised |-> "none",
          data |-> [idx \in Index(dims) |->
             flat[idx[1] + dims[1] * idx[2] + dims[1] * dims[2] * idx[3] + 1]]]

\* the volumes of the first input image: its dimensions and its voxels, all
\* different, or following a pattern along the axes
Dimensions == (1..MaxDim) \X (1..MaxDim) \X (1..MaxDim)
Fills == {"voxel", "sum", "plane"}
Voxels(dims, fill) ==
    [idx \in Index(dims) |->
        CASE fill = "voxel" -> idx[1] + 10 * idx[2] + 100 * idx[3]
          [] fill = "sum" -> idx[1] + idx[2] + idx[3]
          [] fill = "plane" -> idx[3]]

\* what the native layer hands back for one output: the array it was given,
\* another array of that size, or an array of another size
NativeOutputs(flat) ==
    {flat,
     [n \in DOMAIN flat |-> flat[Len(flat) + 1 - n]],
     SubSeq(flat, 2, Len(flat)),
     Append(flat, 0)}

\* no array under way
NoArray == [stage |-> "none", dims |-> <<>>, data |-> <<>>, pushed |-> <<>>,
            flat |-> <<>>, out |-> <<>>]

(* -------------------------- output file names --------------------------- *)

\* one output of a call: the key it is returned under, its position when the
\* key holds a list (0 otherwise), and the file it is saved to
Out(key, idx, file) == [key |-> key, idx |-> idx, file |-> file]

\* flash_t2s_fitting: t2s_file, r2s_file, s0_file, err_file
flash_t2s_fitting_files(a) ==
    LET output_dir == _output_dir_4saving(a.output_dir, a.image_list[1])
        File(suffix) == join(output_dir,
                             _fname_4saving(a.file_name, a.image_list[1], suffix))
    IN  <<Out("t2s", 0, File("qt2fit-t2s")),
          Out("r2s", 0, File("qt2fit-r2s")),
          Out("s0", 0, File("qt2fit-s0")),
          Out("residuals", 0, File("qt2fit-err"))>>

\* mp2rage_t1_mapping: t1_file, r1_file, uni_file
mp2rage_t1_mapping_files(a) ==
    LET output_dir == _output_dir_4saving(a.output_dir, a.image_list[1])
        File(suffix) == join(output_dir,
                             _fname_4saving(a.file_name, a.image_list[1], suffix))
    IN  <<Out("t1", 0, File("qt1map-t1")),
          Out("r1", 0, File("qt1map-r1")),
          Out("uni", 0, File("qt1map-uni"))>>

\* levelset_fusion: levelset_file
levelset_fusion_files(a) ==
    LET output_dir == _output_dir_4saving(a.output_dir, a.image_list[1])
    IN  <<Out("result", 0,
              join(output_dir,
                   _fname_4saving(a.file_name, a.image_list[1], "lsf-avg")))>>

\* lcpca_denoising: den_files, one per magnitude image and then, when a
\* phase_list is given, one per phase image, each named after ITS input
den_files(a) ==
    LET output_dir == _output_dir_4saving(a.output_dir, a.image_list[1])
        Den(image) == join(output_dir,
                           _fname_4saving(a.file_name, image, "lcpca-den"))
        mags == [i \in 1..Len(a.image_list) |-> Den(a.image_list[i])]
        phases == [i \in 1..Len(a.phase_list) |-> Den(a.phase_list[i])]
    IN  IF a.phase_none THEN mags ELSE mags \o phases

\* lcpca_denoising: dim_file
dim_file(a) ==
    join(_output_dir_4saving(a.output_dir, a.image_list[1]),
         _fname_4saving(a.file_name, a.image_list[1], "lcpca-dim"))

\* lcpca_denoising: err_file
err_file(a) ==
    join(_output_dir_4saving(a.output_dir, a.image_list[1]),
         _fname_4saving(a.file_name, a.image_list[1], "lcpca-res"))

\* lcpca_denoising: the outputs in the order the function saves them
lcpca_denoising_files(a) ==
    [i \in 1..Len(den_files(a)) |-> Out("denoised", i, den_files(a)[i])]
    \o <<Out("dimensions", 0, dim_file(a)), Out("residuals", 0, err_file(a))>>

\* the output files a call with save_data expects, in saving order
ExpectedFiles(a) ==
    CASE a.fn = "flash_t2s_fitting" -> flash_t2s_fitting_files(a)
      [] a.fn = "mp2rage_t1_mapping" -> mp2rage_t1_mapping_files(a)
      [] a.fn = "lcpca_denoising" -> lcpca_denoising_files(a)
      [] a.fn = "levelset_fusion" -> levelset_fusion_files(a)
      [] OTHER -> <<>>

\* every file and directory a call of the model can name
AllFiles == UNION {{o.file : o \in Range(ExpectedFiles(a))} : a \in ArgSet}
AllDirs == {f.dir : f \in AllFiles}

(* ------------------------------ the cache ------------------------------- *)

\* (mutant) the cache test of flash_t2s_fitting without "overwrite is False"
flash_t2s_fitting_cached_any_overwrite(a, fs) ==
    \A o \in Range(flash_t2s_fitting_files(a)) : isfile(fs, o.file)

\* flash_t2s_fitting: overwrite is False and the four files exist
flash_t2s_fitting_cached(a, fs) ==
    LET f == flash_t2s_fitting_files(a)
    IN  /\ a.overwrite = FALSE
        /\ isfile(fs, f[1].file)
        /\ isfile(fs, f[2].file)
        /\ isfile(fs, f[3].file)
        /\ isfile(fs, f[4].file)

\* (mutant) a cache test of mp2rage_t1_mapping that asks for files computed
\* with the parameters of the call
mp2rage_t1_mapping_cached_same_parameters(a, fs) ==
    LET f == mp2rage_t1_mapping_files(a)
    IN  /\ a.overwrite = FALSE
        /\ \A i \in 1..3 : isfile(fs, f[i].file) /\ fs[f[i].file].par = a.par

\* mp2rage_t1_mapping: overwrite is False and the three files exist
mp2rage_t1_mapping_cached(a, fs) ==
    LET f == mp2rage_t1_mapping_files(a)
    IN  /\ a.overwrite = FALSE
        /\ isfile(fs, f[1].file)
        /\ isfile(fs, f[2].file)
        /\ isfile(fs, f[3].file)

\* levelset_fusion: overwrite is False and the file exists
levelset_fusion_cached(a, fs) ==
    /\ a.overwrite = FALSE
    /\ isfile(fs, levelset_fusion_files(a)[1].file)

\* (mutant) the cache test of lcpca_denoising without the loop over den_files
lcpca_denoising_cached_without_den(a, fs) ==
    /\ a.overwrite = FALSE
    /\ isfile(fs, dim_file(a))
    /\ isfile(fs, err_file(a))

\* lcpca_denoising: overwrite is False, dim_file and err_file exist and no
\* file of den_files is missing
lcpca_denoising_cached(a, fs) ==
    LET missing == \E i \in DOMAIN den_files(a) : ~isfile(fs, den_files(a)[i])
    IN  /\ a.overwrite = FALSE
        /\ isfile(fs, dim_file(a))
        /\ isfile(fs, err_file(a))
        /\ ~missing

\* the test that guards "skip computation (use existing results)"
Cached(a, fs) ==
    CASE a.fn = "flash_t2s_fitting" -> flash_t2s_fitting_cached(a, fs)
      [] a.fn = "mp2rage_t1_mapping" -> mp2rage_t1_mapping_cached(a, fs)
      [] a.fn = "lcpca_denoising" -> lcpca_denoising_cached(a, fs)
      [] a.fn = "levelset_fusion" -> levelset_fusion_cached(a, fs)
      [] OTHER -> FALSE

\* the dictionary returned on the cache-hit path
flash_t2s_fitting_load(a, fs) ==
    LET f == flash_t2s_fitting_files(a)
    IN  [t2s |-> load_volume(fs, f[1].file),
         r2s |-> load_volume(fs, f[2].file),
         s0 |-> load_volume(fs, f[3].file),
         residuals |-> load_volume(fs, f[4].file)]

mp2rage_t1_mapping_load(a, fs) ==
    LET f == mp2rage_t1_mapping_files(a)
    IN  [t1 |-> load_volume(fs, f[1].file),
         r1 |-> load_volume(fs, f[2].file),
         uni |-> load_volume(fs, f[3].file)]

levelset_fusion_load(a, fs) ==
    [result |-> load_volume(fs, levelset_fusion_files(a)[1].file)]

\* (mutant) the cache-hit return of lcpca_denoising loading one denoised file
\* per magnitude image only
lcpca_denoising_load_magnitudes(a, fs) ==
    [denoised |-> [i \in 1..Len(a.image_list) |->
                      load_volume(fs, den_files(a)[i])],
     dimensions |-> load_volume(fs, dim_file(a)),
     residuals |-> load_volume(fs, err_file(a))]

lcpca_denoising_load(a, fs) ==
    [denoised |-> [i \in DOMAIN den_files(a) |->
                      load_volume(fs, den_files(a)[i])],
     dimensions |-> load_volume(fs, dim_file(a)),
     residuals |-> load_volume(fs, err_file(a))]

Load(a, fs) ==
    CASE a.fn = "flash_t2s_fitting" -> flash_t2s_fitting_load(a, fs)
      [] a.fn = "mp2rage_t1_mapping" -> mp2rage_t1_mapping_load(a, fs)
      [] a.fn = "lcpca_denoising" -> lcpca_denoising_load(a, fs)
      [] a.fn = "levelset_fusion" -> levelset_fusion_load(a, fs)

\* the dictionary returned after a computation (run r)
flash_t2s_fitting_return(a, r) ==
    [t2s |-> Fresh(r, "t2s", 0, a.par),
     r2s |-> Fresh(r, "r2s", 0, a.par),
     s0 |-> Fresh(r, "s0", 0, a.par),
     residuals |-> Fresh(r, "residuals", 0, a.par)]

\* (mutant) mp2rage_t1_mapping returning without 'uni'
mp2rage_t1_mapping_return_without_uni(a, r) ==
    [t1 |-> Fresh(r, "t1", 0, a.par),
     r1 |-> Fresh(r, "r1", 0, a.par)]

mp2rage_t1_mapping_return(a, r) ==
    [t1 |-> Fresh(r, "t1", 0, a.par),
     r1 |-> Fresh(r, "r1", 0, a.par),
     uni |-> Fresh(r, "uni", 0, a.par)]

levelset_fusion_return(a, r) ==
    [result |-> Fresh(r, "result", 0, a.par)]

\* denoised_list: the magnitudes, then the phases when phase_list is given
lcpca_denoising_return(a, r) ==
    LET n == Len(a.image_list) + (IF a.phase_none THEN 0 ELSE Len(a.phase_list))
    IN  [denoised |-> [i \in 1..n |-> Fresh(r, "denoised", i, a.par)],
         dimensions |-> Fresh(r, "dimensions", 0, a.par),
         residuals |-> Fresh(r, "residuals", 0, a.par)]

Return(a, r) ==
    CASE a.fn = "flash_t2s_fitting" -> flash_t2s_fitting_return(a, r)
      [] a.fn = "mp2rage_t1_mapping" -> mp2rage_t1_mapping_return(a, r)
      [] a.fn = "lcpca_denoising" -> lcpca_denoising_return(a, r)
      [] a.fn = "levelset_fusion" -> levelset_fusion_return(a, r)

\* no dictionary (the call raised, or returned None)
NoResult == <<>>

\* the cache test, one os.path.isfile after the other: "and" stops at the
\* first file that is missing (stop), the loop of lcpca_denoising over
\* den_files sets "missing" and goes on
Test(file, stop) == [op |-> "test", file |-> file, stop |-> stop]

Tests(a) ==
    IF a.fn = "lcpca_denoising"
    THEN <<Test(dim_file(a), TRUE), Test(err_file(a), TRUE)>>
         \o [i \in DOMAIN den_files(a) |-> Test(den_files(a)[i], FALSE)]
    ELSE [i \in DOMAIN ExpectedFiles(a) |-> Test(ExpectedFiles(a)[i].file, TRUE)]

\* the cache-hit return, one load_volume after the other in the order the
\* code calls them (lcpca_denoising: den_files, then dim_file and err_file)
LoadFile(o) == [op |-> "load", key |-> o.key, pos |-> o.idx, file |-> o.file]

Loads(a) == [i \in DOMAIN ExpectedFiles(a) |-> LoadFile(ExpectedFiles(a)[i])]

\* the dictionary built from the images imgs loaded in the order of Loads
Loaded(a, imgs) ==
    LET at(key, pos) == CHOOSE i \in DOMAIN Loads(a) :
                            Loads(a)[i].key = key /\ Loads(a)[i].pos = pos
    IN  [key \in {Loads(a)[i].key : i \in DOMAIN Loads(a)} |->
            IF key = "denoised"
            THEN [i \in DOMAIN den_files(a) |-> imgs[at(key, i)]]
            ELSE imgs[at(key, 0)]]

(* --------------------------- the native layer --------------------------- *)

\* one call into the native layer; idx is the index argument of an indexed
\* setter or getter, the count of a count setter, and -1 otherwise
JCall(name, idx) == [name |-> name, idx |-> idx]

\* the setter calls FROM one loop "for idx, x in enumerate(list)"
Indexed(name, list) == [i \in 1..Len(list) |-> JCall(name, i - 1)]

\* flash_t2s_fitting, "set algorithm parameters" to the last setEchoTimeAt
flash_t2s_fitting_configure(a) ==
    <<JCall("setNumberOfEchoes", Len(a.image_list)),
      JCall("setDimensions", -1), JCall("setResolutions", -1)>>
    \o Indexed("setEchoImageAt", a.image_list)
    \o Indexed("setEchoTimeAt", a.te_list)

\* mp2rage_t1_mapping, the scalar setters, dimensions, the four images and,
\* "if (correct_B1)", the B1 map
mp2rage_t1_mapping_configure(a) ==
    <<JCall("setFirstInversionTime", -1), JCall("setSecondInversionTime", -1),
      JCall("setFirstFlipAngle", -1), JCall("setSecondFlipAngle", -1),
      JCall("setInversionRepetitionTime", -1),
      JCall("setFirstExcitationRepetitionTime", -1),
      JCall("setSecondExcitationRepetitionTime", -1),
      JCall("setNumberExcitations", -1), JCall("setInversionEfficiency", -1),
      JCall("setCorrectB1inhomogeneities", -1),
      JCall("setDimensions", -1), JCall("setResolutions", -1),
      JCall("setFirstInversionMagnitude", -1), JCall("setFirstInversionPhase", -1),
      JCall("setSecondInversionMagnitude", -1),
      JCall("setSecondInversionPhase", -1)>>
    \o (IF a.correct_B1 THEN <<JCall("setB1mapImage", -1)>> ELSE <<>>)

\* levelset_fusion, setNumberOfImages to setTopologyLUTdirectory
levelset_fusion_configure(a) ==
    <<JCall("setNumberOfImages", Len(a.image_list)),
      JCall("setResolutions", -1), JCall("setDimensions", -1)>>
    \o Indexed("setLevelsetImageAt", a.image_list)
    \o <<JCall("setCorrectSkeletonTopology", -1),
         JCall("setTopologyLUTdirectory", -1)>>

\* lcpca_denoising: the test "phase_list!=None and len(phase_list)!=
\* len(image_list)" that makes the call return None
mismatch(a) ==
    /\ ~a.phase_none
    /\ Len(a.phase_list) # Len(a.image_list)

\* lcpca_denoising, setImageNumber to setMaximumDimension; on a mismatch the
\* function returns right after setImageNumber
lcpca_denoising_configure(a) ==
    <<JCall("setImageNumber", Len(a.image_list))>>
    \o (IF mismatch(a) THEN <<>>
        ELSE <<JCall("setDimensions", -1), JCall("setResolutions", -1)>>
             \o Indexed("setMagnitudeImageAt", a.image_list)
             \o (IF a.phase_none THEN <<>>
                 ELSE Indexed("setPhaseImageAt", a.phase_list))
             \o <<JCall("setPatchSize", -1), JCall("setStdevCutoff", -1),
                  JCall("setMinimumDimension", -1),
                  JCall("setMaximumDimension", -1)>>)

ConfigureCalls(a) ==
    CASE a.fn = "flash_t2s_fitting" -> flash_t2s_fitting_configure(a)
      [] a.fn = "mp2rage_t1_mapping" -> mp2rage_t1_mapping_configure(a)
      [] a.fn = "lcpca_denoising" -> lcpca_denoising_configure(a)
      [] a.fn = "levelset_fusion" -> levelset_fusion_configure(a)

\* the algorithm class each function instantiates
Instance(a) ==
    CASE a.fn = "flash_t2s_fitting" -> "IntensityFlashT2sFitting"
      [] a.fn = "mp2rage_t1_mapping" -> "IntensityMp2rageT1Fitting"
      [] a.fn = "lcpca_denoising" -> "IntensityComplexPCADenoising"
      [] a.fn = "levelset_fusion" -> "ShapeLevelsetFusion"

(* ------------------- after execute(): outputs and saving ---------------- *)

\* one step after a successful execute(): "get" reads one native output and
\* builds its image, "save" is one save_volume
Get(name, idx, key, pos) ==
    [op |-> "get", name |-> name, idx |-> idx, key |-> key, pos |-> pos,
     file |-> [dir |-> None, base |-> <<None, 0>>, suffix |-> None]]
Save(o) ==
    [op |-> "save", name |-> "save_volume", idx |-> -1, key |-> o.key,
     pos |-> o.idx, file |-> o.file]

\* (mutant) the save_volume calls without the test of save_data
Saves_whatever_save_data(a, os) == [i \in DOMAIN os |-> Save(os[i])]

\* "if save_data:" followed by the save_volume calls of the outputs os
Saves(a, os) == IF a.save_data THEN [i \in DOMAIN os |-> Save(os[i])] ELSE <<>>

\* (mutant) flash_t2s_fitting that forgets save_volume(err_file, err)
flash_t2s_fitting_post_without_err(a) ==
    <<Get("getT2sImage", -1, "t2s", 0), Get("getR2sImage", -1, "r2s", 0),
      Get("getS0Image", -1, "s0", 0),
      Get("getResidualImage", -1, "residuals", 0)>>
    \o Saves(a, SubSeq(flash_t2s_fitting_files(a), 1, 3))

\* flash_t2s_fitting from "reshape output" to the last save_volume
flash_t2s_fitting_post(a) ==
    <<Get("getT2sImage", -1, "t2s", 0), Get("getR2sImage", -1, "r2s", 0),
      Get("getS0Image", -1, "s0", 0),
      Get("getResidualImage", -1, "residuals", 0)>>
    \o Saves(a, flash_t2s_fitting_files(a))

\* mp2rage_t1_mapping from "reshape output" to the last save_volume
mp2rage_t1_mapping_post(a) ==
    <<Get("getQuantitativeT1mapImage", -1, "t1", 0),
      Get("getQuantitativeR1mapImage", -1, "r1", 0),
      Get("getUniformT1weightedImage", -1, "uni", 0)>>
    \o Saves(a, mp2rage_t1_mapping_files(a))

\* (mutant) levelset_fusion saving before it has read the native output
levelset_fusion_post_save_first(a) ==
    Saves(a, levelset_fusion_files(a))
    \o <<Get("getLevelsetAverage", -1, "result", 0)>>

\* levelset_fusion from "collect outputs" to save_volume
levelset_fusion_post(a) ==
    <<Get("getLevelsetAverage", -1, "result", 0)>>
    \o Saves(a, levelset_fusion_files(a))

RECURSIVE Flatten(_)
Flatten(ss) == IF ss = <<>> THEN <<>> ELSE Head(ss) \o Flatten(Tail(ss))

\* lcpca_denoising from "reshape output" to the last save_volume: every
\* denoised image is saved right after it is built (den_files[idx] for a
\* magnitude, den_files[idx+len(image_list)] for a phase), dim and err after
\* both are built
lcpca_denoising_post(a) ==
    LET n == Len(a.image_list)
        SaveDen(i) == IF a.save_data
                      THEN <<Save(Out("denoised", i, den_files(a)[i]))>>
                      ELSE <<>>
        mags == Flatten([i \in 1..n |->
                    <<Get("getDenoisedMagnitudeImageAt", i - 1, "denoised", i)>>
                    \o SaveDen(i)])
        phases == Flatten([j \in 1..Len(a.phase_list) |->
                    <<Get("getDenoisedPhaseImageAt", j - 1, "denoised", j + n)>>
                    \o SaveDen(j + n)])
    IN  mags
        \o (IF a.phase_none THEN <<>> ELSE phases)
        \o <<Get("getLocalDimensionImage", -1, "dimensions", 0),
             Get("getNoiseFitImage", -1, "residuals", 0)>>
        \o Saves(a, <<Out("dimensions", 0, dim_file(a)),
                      Out("residuals", 0, err_file(a))>>)

Post(a) ==
    CASE a.fn = "flash_t2s_fitting" -> flash_t2s_fitting_post(a)
      [] a.fn = "mp2rage_t1_mapping" -> mp2rage_t1_mapping_post(a)
      [] a.fn = "lcpca_denoising" -> lcpca_denoising_post(a)
      [] a.fn = "levelset_fusion" -> levelset_fusion_post(a)

\* the number of "get" steps at the head of the remaining steps
RECURSIVE LeadingGets(_)
LeadingGets(steps) ==
    IF steps = <<>> \/ Head(steps).op # "get" THEN 0
    ELSE 1 + LeadingGets(Tail(steps))

\* the exception a call ends with when execute() raises: the handler prints
\* a line, then evaluates sys.exc_info() and re-raises; levelset_fusion.py
\* does not import sys, so there the handler itself raises NameError
Reraised(a) ==
    IF a.fn = "levelset_fusion" THEN "NameError" ELSE "JavaError"

(* ------------------------------ messages -------------------------------- *)

\* a printed line: its text and, for the line that names a file, the file
NoPath == [dir |-> None, base |-> <<None, 0>>, suffix |-> None]
Line(text) == [text |-> text, file |-> NoPath]

Banner(a) == Line(a.fn)
MsgSkip == Line("skip computation (use existing results)")
MsgMismatch == Line("mismatch of magnitude and phase images: abort")
MsgNotClean == Line("The underlying Java code did not execute cleanly: ")
MsgExcInfo == Line("sys.exc_info()[0]")
\* levelset_fusion: print('output file: '+levelset_file)
MsgOutputFile(file) == [text |-> "output file: ", file |-> file]

\* the lines printed between the file names and the cache test
OutputFileLines(a) ==
    IF a.fn = "levelset_fusion"
    THEN <<MsgOutputFile(levelset_fusion_files(a)[1].file)>>
    ELSE <<>>

\* (mutant) initVM called without the try/except: ValueError propagates
TryInitVM_without_except(r) == r

\* the two outcomes of "try: initVM(...) except ValueError: pass": the call
\* goes on whether initVM raised ValueError or not
TryInitVM(r) == [r EXCEPT !.raised = "none"]

\* cbstools.initVM / nighresjava.initVM: starts the runtime when it is not
\* running, raises ValueError when it is
initVM(running) ==
    IF running THEN [raised |-> "ValueError", running |-> TRUE, started |-> 0]
    ELSE [raised |-> "none", running |-> TRUE, started |-> 1]

(* ------------------------------- state ---------------------------------- *)

Init ==
    /\ files = [f \in AllFiles |-> NoFile]
    /\ dirs = {"in"}
    /\ vm = FALSE
    /\ vmStarts = 0
    /\ ncalls = 0
    /\ ndeleted = 0
    /\ serial = TRUE
    /\ array = NoArray
    /\ pc = [p \in Procs |-> "idle"]
    /\ args = [p \in Procs |-> NoArgs]
    /\ run = [p \in Procs |-> 0]
    /\ native = [p \in Procs |-> <<>>]
    /\ printed = [p \in Procs |-> <<>>]
    /\ todo = [p \in Procs |-> <<>>]
    /\ outcome = [p \in Procs |-> "none"]
    /\ exc = [p \in Procs |-> "none"]
    /\ result = [p \in Procs |-> NoResult]
    /\ loaded = [p \in Procs |-> <<>>]

\* how a call ends: pc "done" with an outcome, an exception and a result
Finish(p, how, e, res) ==
    /\ pc' = [pc EXCEPT ![p] = "done"]
    /\ outcome' = [outcome EXCEPT ![p] = how]
    /\ exc' = [exc EXCEPT ![p] = e]
    /\ result' = [result EXCEPT ![p] = res]

(* ------------------------------ the calls ------------------------------- *)

\* two calls name the same family of output files: they are calls of one
\* function that agree on output_dir and file_name
SameTarget(a, b) ==
    /\ a.fn = b.fn
    /\ a.output_dir = b.output_dir
    /\ a.file_name = b.file_name

\* the family of a call, and the files the calls of each family can name
Target(a) == <<a.fn, a.output_dir, a.file_name>>
Families ==
    [t \in {Target(a) : a \in ArgSet} |->
        UNION {{o.file : o \in Range(ExpectedFiles(b))} :
                  b \in {c \in ArgSet : Target(c) = t}}]
FamilyFiles(a) == Families[Target(a)]

\* a session whose calls are calls of any function, those that save their
\* outputs being calls of one family (calls of different families name
\* disjoint files)
OneFamily(a) ==
    a.save_data => \A f \in AllFiles : isfile(files, f) => f \in FamilyFiles(a)

\* a session whose calls are all calls of one family
OneFunction(p, a) == args[p].fn = NoArgs.fn \/ SameTarget(a, args[p])

\* the function is entered with the arguments a and prints its banner
Enter(p, a) ==
    /\ pc[p] \in {"idle", "done"}
    /\ ncalls' = ncalls + 1
    /\ run' = [run EXCEPT ![p] = ncalls + 1]
    /\ args' = [args EXCEPT ![p] = a]
    /\ pc' = [pc EXCEPT ![p] = "start"]
    /\ native' = [native EXCEPT ![p] = <<>>]
    /\ printed' = [printed EXCEPT ![p] = <<Banner(a)>>]
    /\ todo' = [todo EXCEPT ![p] = <<>>]
    /\ outcome' = [outcome EXCEPT ![p] = "none"]
    /\ exc' = [exc EXCEPT ![p] = "none"]
    /\ result' = [result EXCEPT ![p] = NoResult]
    /\ UNCHANGED <<files, dirs, vm, vmStarts, ndeleted, serial, loaded, array>>

\* the caller p calls one of the four functions with the arguments a
Call(p, a) ==
    /\ ncalls < MaxCalls
    /\ Enter(p, a)

\* levelset_fusion: "topology_lut_dir = _check_topology_lut_dir(...)" raises
BadLutDir(a, ds) ==
    /\ a.fn = "levelset_fusion"
    /\ _check_topology_lut_dir(a.topology_lut_dir, ds) = "ValueError"

\* from the banner to the cache-hit return: levelset_fusion checks
\* topology_lut_dir; then, "if save_data:", the output directory is created
\* when absent (mkdir_ok: the creation succeeds), the file names are built
\* (levelset_fusion prints its file), and when the cache test holds the
\* saved files are loaded and returned. One step where one caller calls at a
\* time; with concurrent callers see StartPaths, TestFile and LoadVolume
Start(p, mkdir_ok) ==
    LET a == args[p]
        output_dir == _output_dir_4saving(a.output_dir, a.image_list[1])
    IN
    /\ pc[p] = "start"
    /\ IF BadLutDir(a, dirs)
       THEN /\ mkdir_ok
            /\ Finish(p, "raised", "ValueError", NoResult)
            /\ UNCHANGED <<dirs, printed>>
       ELSE IF ~a.save_data
       THEN /\ mkdir_ok
            /\ pc' = [pc EXCEPT ![p] = "vm"]
            /\ UNCHANGED <<dirs, printed, outcome, exc, result>>
       ELSE IF output_dir \notin dirs /\ ~mkdir_ok
       THEN /\ Finish(p, "raised", "OSError", NoResult)
            /\ UNCHANGED <<dirs, printed>>
       ELSE /\ (output_dir \in dirs => mkdir_ok)
            /\ dirs' = dirs \cup {output_dir}
            /\ IF Cached(a, files)
               THEN /\ printed' = [printed EXCEPT ![p] =
                          @ \o OutputFileLines(a) \o <<MsgSkip>>]
                    /\ Finish(p, "cached", "none", Load(a, files))
               ELSE /\ printed' = [printed EXCEPT ![p] = @ \o OutputFileLines(a)]
                    /\ pc' = [pc EXCEPT ![p] = "vm"]
                    /\ UNCHANGED <<outcome, exc, result>>
    /\ UNCHANGED <<serial, loaded, array, files, vm, vmStarts, ncalls, ndeleted, args, run, native, todo>>

\* "start virtual machine, if not already running" and "create algorithm
\* instance": the ValueError of initVM is passed over
StartVM(p) ==
    LET r == TryInitVM(initVM(vm))
    IN
    /\ pc[p] = "vm"
    /\ vm' = r.running
    /\ vmStarts' = vmStarts + r.started
    /\ IF r.raised = "none"
       THEN /\ native' = [native EXCEPT ![p] =
                  @ \o <<JCall("initVM", -1), JCall(Instance(args[p]), -1)>>]
            /\ pc' = [pc EXCEPT ![p] = "configure"]
            /\ UNCHANGED <<outcome, exc, result>>
       ELSE /\ native' = [native EXCEPT ![p] = Append(@, JCall("initVM", -1))]
            /\ Finish(p, "raised", r.raised, NoResult)
    /\ UNCHANGED <<serial, loaded, array, files, dirs, ncalls, ndeleted, args, run, printed, todo>>

\* the setter calls up to execute(); lcpca_denoising prints and returns None
\* when the lengths of phase_list and image_list differ
Configure(p) ==
    LET a == args[p]
    IN
    /\ pc[p] = "configure"
    /\ native' = [native EXCEPT ![p] = @ \o ConfigureCalls(a)]
    /\ IF a.fn = "lcpca_denoising" /\ mismatch(a)
       THEN /\ printed' = [printed EXCEPT ![p] = Append(@, MsgMismatch)]
            /\ Finish(p, "aborted", "none", NoResult)
       ELSE /\ pc' = [pc EXCEPT ![p] = "execute"]
            /\ UNCHANGED <<printed, outcome, exc, result>>
    /\ UNCHANGED <<serial, loaded, array, files, dirs, vm, vmStarts, ncalls, ndeleted, args, run, todo>>

\* "execute the algorithm": execute() returns (ok) or raises; the handler
\* prints and re-raises
Execute(p, ok) ==
    LET a == args[p]
    IN
    /\ pc[p] = "execute"
    /\ native' = [native EXCEPT ![p] = Append(@, JCall("execute", -1))]
    /\ IF ok
       THEN /\ pc' = [pc EXCEPT ![p] = "post"]
            /\ todo' = [todo EXCEPT ![p] = Post(a)]
            /\ UNCHANGED <<printed, outcome, exc, result>>
       ELSE /\ printed' = [printed EXCEPT ![p] =
                  @ \o (IF Reraised(a) = "NameError" THEN <<MsgNotClean>>
                        ELSE <<MsgNotClean, MsgExcInfo>>)]
            /\ Finish(p, "raised", Reraised(a), NoResult)
            /\ UNCHANGED todo
    /\ UNCHANGED <<serial, loaded, array, files, dirs, vm, vmStarts, ncalls, ndeleted, args, run>>

\* the native outputs are read, reshaped and wrapped as images, up to the
\* next save_volume or the return; when the bad-th of them has not the size
\* of the first input (bad > 0), np.reshape raises ValueError there
Reconstruct(p, bad) ==
    LET n == LeadingGets(todo[p])
        read == IF bad = 0 THEN n ELSE bad
    IN
    /\ pc[p] = "post"
    /\ n > 0
    /\ bad \in 0..n
    /\ native' = [native EXCEPT ![p] =
                     @ \o [i \in 1..read |-> JCall(todo[p][i].name, todo[p][i].idx)]]
    /\ IF bad = 0
       THEN /\ todo' = [todo EXCEPT ![p] = SubSeq(@, n + 1, Len(@))]
            /\ UNCHANGED <<pc, outcome, exc, result>>
       ELSE /\ Finish(p, "raised", "ValueError", NoResult)
            /\ UNCHANGED todo
    /\ UNCHANGED <<serial, loaded, array, files, dirs, vm, vmStarts, ncalls, ndeleted, args, run,
                   printed>>

\* one save_volume(file, image): it writes the image (ok) or raises, which
\* nothing catches
SaveVolume(p, ok) ==
    LET st == Head(todo[p])
        a == args[p]
    IN
    /\ pc[p] = "post"
    /\ todo[p] # <<>>
    /\ st.op = "save"
    /\ IF ok
       THEN /\ files' = save_volume(files, st.file,
                                    Fresh(run[p], st.key, st.pos, a.par))
            /\ todo' = [todo EXCEPT ![p] = Tail(@)]
            /\ UNCHANGED <<pc, outcome, exc, result>>
       ELSE /\ Finish(p, "raised", "IOError", NoResult)
            /\ UNCHANGED <<files, todo>>
    /\ UNCHANGED <<serial, loaded, array, dirs, vm, vmStarts, ncalls, ndeleted, args, run, native, printed>>

\* the final return of the dictionary of computed images
ReturnFresh(p) ==
    /\ pc[p] = "post"
    /\ todo[p] = <<>>
    /\ Finish(p, "fresh", "none", Return(args[p], run[p]))
    /\ UNCHANGED <<serial, loaded, array, files, dirs, vm, vmStarts, ncalls, ndeleted, args, run, native,
                   printed, todo>>

\* what is left of a call once its caller has dropped the result: the family
\* of the session
Forgotten(a) ==
    [NoArgs EXCEPT !.fn = a.fn, !.output_dir = a.output_dir,
                   !.file_name = a.file_name]

\* between two calls, the results of the last call dropped, somebody deletes
\* one output file
DeleteFile(f) ==
    /\ \A p \in Procs : pc[p] \in {"idle", "done"}
    /\ ndeleted < MaxDeletes
    /\ isfile(files, f)
    /\ files' = [files EXCEPT ![f] = NoFile]
    /\ ndeleted' = ndeleted + 1
    /\ pc' = [p \in Procs |-> "idle"]
    /\ args' = [p \in Procs |-> Forgotten(args[p])]
    /\ run' = [p \in Procs |-> 0]
    /\ native' = [p \in Procs |-> <<>>]
    /\ printed' = [p \in Procs |-> <<>>]
    /\ todo' = [p \in Procs |-> <<>>]
    /\ outcome' = [p \in Procs |-> "none"]
    /\ exc' = [p \in Procs |-> "none"]
    /\ result' = [p \in Procs |-> NoResult]
    /\ UNCHANGED <<serial, loaded, array, dirs, vm, vmStarts, ncalls>>

Next ==
    \/ \E p \in SeqProcs, a \in Default : Call(p, a) /\ OneFunction(p, a)
    \/ \E p \in SeqProcs, ok \in BOOLEAN : Start(p, ok)
    \/ \E p \in SeqProcs : StartVM(p)
    \/ \E p \in SeqProcs : Configure(p)
    \/ \E p \in SeqProcs, ok \in BOOLEAN : Execute(p, ok)
    \/ \E p \in SeqProcs : \E bad \in 0..Len(todo[p]) : Reconstruct(p, bad)
    \/ \E p \in SeqProcs, ok \in BOOLEAN : SaveVolume(p, ok)
    \/ \E p \in SeqProcs : ReturnFresh(p)
    \/ \E f \in AllFiles : DeleteFile(f)

Spec == Init /\ [][Next]_vars

\* the sessions that call any of the four functions
NextAnyFunction ==
    \/ \E p \in SeqProcs, a \in Default : Call(p, a) /\ OneFamily(a)
    \/ \E p \in SeqProcs, ok \in BOOLEAN : Start(p, ok)
    \/ \E p \in SeqProcs : StartVM(p)
    \/ \E p \in SeqProcs : Configure(p)
    \/ \E p \in SeqProcs, ok \in BOOLEAN : Execute(p, ok)
    \/ \E p \in SeqProcs : \E bad \in 0..Len(todo[p]) : Reconstruct(p, bad)
    \/ \E p \in SeqProcs, ok \in BOOLEAN : SaveVolume(p, ok)
    \/ \E p \in SeqProcs : ReturnFresh(p)

SpecAnyFunction == Init /\ [][NextAnyFunction]_vars

(* --------------------------- concurrent callers ------------------------- *)

\* the calls of the callers that contend for the output files of one
\* function: calls with save_data=True that do not ask to overwrite and name
\* the files after the first input (lcpca_denoising on one image)
ConcurrentCalls ==
    {a \in Default :
        /\ a.save_data /\ ~a.overwrite
        /\ a.file_name = None
        /\ a.fn = "lcpca_denoising" => a.phase_none /\ Len(a.image_list) = 1}

\* the calls of all callers target the same output paths
Contend(a) ==
    \A q \in Procs :
        args[q].fn = NoArgs.fn \/ ExpectedFiles(a) = ExpectedFiles(args[q])

\* a caller that serialises the calls per output path calls when no other
\* call is under way; nothing in the functions makes a call wait
Serialised(p) == serial => \A q \in Procs \ {p} : pc[q] \in {"idle", "done"}

CallConcurrent(p, a) ==
    /\ ncalls < MaxCalls + 1
    /\ Contend(a)
    /\ Serialised(p)
    /\ Enter(p, a)

\* save_volume(file, image) as other callers see it: the file is created,
\* and exists from then on ...
SaveVolumeOpen(p) ==
    LET st == Head(todo[p])
    IN
    /\ pc[p] = "post"
    /\ todo[p] # <<>>
    /\ st.op = "save"
    /\ files' = save_volume(files, st.file,
                            Torn(Fresh(run[p], st.key, st.pos, args[p].par)))
    /\ pc' = [pc EXCEPT ![p] = "saving"]
    /\ UNCHANGED <<serial, loaded, array, dirs, vm, vmStarts, ncalls, ndeleted, args, run, native,
                   printed, todo, outcome, exc, result>>

\* (mutant) a save_volume that may leave the file torn on its own
SaveVolumeClose_torn(p, whole) ==
    LET st == Head(todo[p])
        img == Fresh(run[p], st.key, st.pos, args[p].par)
    IN
    /\ pc[p] = "saving"
    /\ files' = save_volume(files, st.file, IF whole THEN img ELSE Torn(img))
    /\ todo' = [todo EXCEPT ![p] = Tail(@)]
    /\ pc' = [pc EXCEPT ![p] = "post"]
    /\ UNCHANGED <<serial, loaded, array, dirs, vm, vmStarts, ncalls, ndeleted, args, run, native,
                   printed, outcome, exc, result>>

\* ... and is written to its end; when another call has written the same
\* file in between, the file holds the image (whole) or a mixture of both
SaveVolumeClose(p, whole) ==
    LET st == Head(todo[p])
        img == Fresh(run[p], st.key, st.pos, args[p].par)
    IN
    /\ pc[p] = "saving"
    /\ ~whole => files[st.file] # Torn(img)
    /\ files' = save_volume(files, st.file, IF whole THEN img ELSE Torn(img))
    /\ todo' = [todo EXCEPT ![p] = Tail(@)]
    /\ pc' = [pc EXCEPT ![p] = "post"]
    /\ UNCHANGED <<serial, loaded, array, dirs, vm, vmStarts, ncalls, ndeleted, args, run, native,
                   printed, outcome, exc, result>>

\* Start as other callers see it, call by call on the file system. First,
\* from the banner to the file names: see Start; the cache test begins when
\* "overwrite is False"
StartPaths(p, mkdir_ok) ==
    LET a == args[p]
        output_dir == _output_dir_4saving(a.output_dir, a.image_list[1])
    IN
    /\ pc[p] = "start"
    /\ IF BadLutDir(a, dirs)
       THEN /\ mkdir_ok
            /\ Finish(p, "raised", "ValueError", NoResult)
            /\ UNCHANGED <<dirs, printed, todo>>
       ELSE IF ~a.save_data
       THEN /\ mkdir_ok
            /\ pc' = [pc EXCEPT ![p] = "vm"]
            /\ UNCHANGED <<dirs, printed, todo, outcome, exc, result>>
       ELSE IF output_dir \notin dirs /\ ~mkdir_ok
       THEN /\ Finish(p, "raised", "OSError", NoResult)
            /\ UNCHANGED <<dirs, printed, todo>>
       ELSE /\ (output_dir \in dirs => mkdir_ok)
            /\ dirs' = dirs \cup {output_dir}
            /\ printed' = [printed EXCEPT ![p] = @ \o OutputFileLines(a)]
            /\ IF a.overwrite = FALSE
               THEN /\ pc' = [pc EXCEPT ![p] = "testing"]
                    /\ todo' = [todo EXCEPT ![p] = Tests(a)]
               ELSE /\ pc' = [pc EXCEPT ![p] = "vm"]
                    /\ UNCHANGED todo
            /\ UNCHANGED <<outcome, exc, result>>
    /\ UNCHANGED <<serial, loaded, array, files, vm, vmStarts, ncalls, ndeleted, args, run,
                   native>>

\* one os.path.isfile of the cache test ("missing": a file of den_files was
\* missing); after the last one the call prints the skip line, or computes
TestFile(p) ==
    LET st == Head(todo[p])
        missing == pc[p] = "missing" \/ ~isfile(files, st.file)
        miss == /\ missing
                /\ st.stop \/ Len(todo[p]) = 1
        hit == ~missing /\ Len(todo[p]) = 1
    IN
    /\ pc[p] \in {"testing", "missing"}
    /\ pc' = [pc EXCEPT ![p] = IF miss THEN "vm"
                               ELSE IF hit THEN "loading"
                               ELSE IF missing THEN "missing" ELSE "testing"]
    /\ todo' = [todo EXCEPT ![p] = IF miss THEN <<>>
                                   ELSE IF hit THEN Loads(args[p])
                                   ELSE Tail(@)]
    /\ printed' = [printed EXCEPT ![p] = IF hit THEN Append(@, MsgSkip) ELSE @]
    /\ UNCHANGED <<serial, loaded, array, files, dirs, vm, vmStarts, ncalls, ndeleted, args,
                   run, native, outcome, exc, result>>

\* one load_volume of the cache-hit return; after the last one the call
\* returns the dictionary of the images it loaded
LoadVolume(p) ==
    LET st == Head(todo[p])
        imgs == Append(loaded[p], load_volume(files, st.file))
    IN
    /\ pc[p] = "loading"
    /\ todo' = [todo EXCEPT ![p] = Tail(@)]
    /\ IF ~isfile(files, st.file)
       THEN /\ Finish(p, "raised", "IOError", NoResult)
            /\ loaded' = [loaded EXCEPT ![p] = <<>>]
       ELSE IF Len(todo[p]) = 1
       THEN /\ Finish(p, "cached", "none", Loaded(args[p], imgs))
            /\ loaded' = [loaded EXCEPT ![p] = <<>>]
       ELSE /\ loaded' = [loaded EXCEPT ![p] = imgs]
            /\ UNCHANGED <<pc, outcome, exc, result>>
    /\ UNCHANGED <<serial, array, files, dirs, vm, vmStarts, ncalls, ndeleted, args, run,
                   native, printed>>

\* the callers serialise the calls per output path, or do not
InitConcurrent ==
    /\ files = [f \in AllFiles |-> NoFile]
    /\ dirs = {"in"}
    /\ vm = FALSE
    /\ vmStarts = 0
    /\ ncalls = 0
    /\ ndeleted = 0
    /\ serial \in BOOLEAN
    /\ array = NoArray
    /\ pc = [p \in Procs |-> "idle"]
    /\ args = [p \in Procs |-> NoArgs]
    /\ run = [p \in Procs |-> 0]
    /\ native = [p \in Procs |-> <<>>]
    /\ printed = [p \in Procs |-> <<>>]
    /\ todo = [p \in Procs |-> <<>>]
    /\ outcome = [p \in Procs |-> "none"]
    /\ exc = [p \in Procs |-> "none"]
    /\ result = [p \in Procs |-> NoResult]
    /\ loaded = [p \in Procs |-> <<>>]

NextConcurrent ==
    \/ \E p \in Procs, a \in ConcurrentCalls : CallConcurrent(p, a)
    \/ \E p \in Procs, ok \in BOOLEAN : StartPaths(p, ok)
    \/ \E p \in Procs : TestFile(p)
    \/ \E p \in Procs : LoadVolume(p)
    \/ \E p \in Procs : StartVM(p)
    \/ \E p \in Procs : Configure(p)
    \/ \E p \in Procs, ok \in BOOLEAN : Execute(p, ok)
    \/ \E p \in Procs : \E bad \in 0..Len(todo[p]) : Reconstruct(p, bad)
    \/ \E p \in Procs : SaveVolumeOpen(p)
    \/ \E p \in Procs, whole \in BOOLEAN : SaveVolumeClose(p, whole)
    \/ \E p \in Procs : ReturnFresh(p)

SpecConcurrent == InitConcurrent /\ [][NextConcurrent]_vars

(* ------------------- one array through the native layer ---------------- *)

progVars == <<files, dirs, vm, vmStarts, ncalls, ndeleted, serial,
              pc, args, run, native, printed, todo, outcome, exc, result,
              loaded>>

\* "data = img.get_data(); dimensions = data.shape" of the first input
InitShape ==
    /\ files = [f \in AllFiles |-> NoFile]
    /\ dirs = {"in"}
    /\ vm = FALSE
    /\ vmStarts = 0
    /\ ncalls = 0
    /\ ndeleted = 0
    /\ serial = TRUE
    /\ \E dims \in Dimensions, fill \in Fills :
          array = [NoArray EXCEPT !.stage = "loaded", !.dims = dims,
                                  !.data = Voxels(dims, fill)]
    /\ pc = [p \in Procs |-> "idle"]
    /\ args = [p \in Procs |-> NoArgs]
    /\ run = [p \in Procs |-> 0]
    /\ native = [p \in Procs |-> <<>>]
    /\ printed = [p \in Procs |-> <<>>]
    /\ todo = [p \in Procs |-> <<>>]
    /\ outcome = [p \in Procs |-> "none"]
    /\ exc = [p \in Procs |-> "none"]
    /\ result = [p \in Procs |-> NoResult]
    /\ loaded = [p \in Procs |-> <<>>]

\* "setEchoImageAt(idx, JArray('float')(data.flatten('F').astype(float)))"
PushArray ==
    /\ array.stage = "loaded"
    /\ array' = [array EXCEPT !.stage = "pushed",
                              !.pushed = flatten_F(array.data, array.dims)]
    /\ UNCHANGED progVars

\* "np.array(qt2fit.getT2sImage(), dtype=np.float32)"
GetArray(flat) ==
    /\ array.stage = "pushed"
    /\ array' = [array EXCEPT !.stage = "got", !.flat = flat]
    /\ UNCHANGED progVars

\* "np.reshape(..., dimensions, 'F')"
ReshapeArray ==
    LET out == reshape_F(array.flat, array.dims)
    IN
    /\ array.stage = "got"
    /\ array' = IF out.raised = "ValueError"
                THEN [array EXCEPT !.stage = "ValueError"]
                ELSE [array EXCEPT !.stage = "reshaped", !.out = out.data]
    /\ UNCHANGED progVars

NextShape ==
    \/ PushArray
    \/ \E flat \in NativeOutputs(array.pushed) : GetArray(flat)
    \/ ReshapeArray

SpecShape == InitShape /\ [][NextShape]_vars

(* ------------------------- notions of the claims ------------------------ *)

Done(p) == pc[p] = "done"

\* the native calls of the current call of p, by name
NativeNames(p) == {native[p][i].name : i \in DOMAIN native[p]}
Executed(p) == "execute" \in NativeNames(p)

\* execute() of the current call of p raised: it is the last native call of
\* a call that ended
ExecuteRaised(p) ==
    /\ Done(p)
    /\ native[p] # <<>>
    /\ native[p][Len(native[p])].name = "execute"

\* the files of a call that exist
Existing(a, fs) == {o.file : o \in {x \in Range(ExpectedFiles(a)) : isfile(fs, x.file)}}
AllExist(a, fs) == \A o \in Range(ExpectedFiles(a)) : isfile(fs, o.file)

\* the images of a returned dictionary
Images(fn, res) ==
    IF fn = "lcpca_denoising"
    THEN Range(res.denoised) \cup {res.dimensions, res.residuals}
    ELSE {res[k] : k \in DOMAIN res}

\* the image a returned dictionary holds for one output
ImageOf(res, o) == IF o.key = "denoised" THEN res.denoised[o.idx] ELSE res[o.key]

(* -------------------------------- C1 ------------------------------------ *)

\* the call of p has returned a dictionary with save_data=True,
\* overwrite=False, and nothing has happened since
ReturnedSaved(p) ==
    /\ Done(p)
    /\ outcome[p] \in {"cached", "fresh"}
    /\ args[p].save_data
    /\ ~args[p].overwrite

\* C1: after a call with save_data=True, overwrite=False has returned its
\* dictionary, the cache test holds for the same arguments and the check of
\* topology_lut_dir passes again (and after a fresh computation every
\* expected file was written by that call); and a call with save_data=True,
\* overwrite=False that starts with the cache test holding and passes the
\* check of topology_lut_dir ends at once on the cache-hit path: no initVM,
\* no algorithm instance, no execute(), no file changed, and each key holds
\* the content of its file.
IdempotentStep(p) ==
    /\ ReturnedSaved(p)' =>
          /\ Cached(args'[p], files')
          /\ ~BadLutDir(args'[p], dirs')
          /\ outcome'[p] = "fresh" =>
                \A o \in Range(ExpectedFiles(args'[p])) :
                    files'[o.file].run = run'[p]
    /\ (ReturnedSaved(p) /\ pc'[p] = "start" /\ args'[p] = args[p]) =>
          Cached(args'[p], files')
    /\ (pc[p] = "start" /\ args[p].save_data /\ ~args[p].overwrite
          /\ Cached(args[p], files) /\ ~BadLutDir(args[p], dirs)
          /\ pc'[p] # "start") =>
          /\ pc'[p] = "done"
          /\ outcome'[p] = "cached"
          /\ native'[p] = <<>>
          /\ vm' = vm
          /\ files' = files
          /\ result'[p] = Load(args[p], files)
          /\ \A o \in Range(ExpectedFiles(args[p])) :
                ImageOf(result'[p], o) = files[o.file]
C1_Idempotence == [][\A p \in SeqProcs : IdempotentStep(p)]_vars

\* a second call has returned from the cache what the first call wrote
C1_Witness ==
    /\ ReturnedSaved(1)
    /\ outcome[1] = "cached"
    /\ run[1] = 2
    /\ native[1] = <<>>
    /\ \A o \in Range(ExpectedFiles(args[1])) : ImageOf(result[1], o).run = 1

(* -------------------------------- C2 ------------------------------------ *)

\* C2 as stated: a call with save_data=True and overwrite=True that ends
\* without a file system error has invoked execute().
C2_OverwriteAlwaysExecutes ==
    \A p \in SeqProcs :
        (Done(p) /\ args[p].save_data /\ args[p].overwrite
            /\ exc[p] # "OSError")
        => Executed(p)

\* the calls that end before execute() although nothing failed:
\* lcpca_denoising with a phase_list of another length than image_list
AbortsOnMismatch(a) == a.fn = "lcpca_denoising" /\ mismatch(a)

\* C2 amended: a call with save_data=True and overwrite=True never returns
\* from the cache, whatever files exist; unless levelset_fusion raises on its
\* topology_lut_dir, the output directory cannot be created or
\* lcpca_denoising stops on mismatched lists it goes on to execute(); and
\* when it returns, every expected file holds an image of this computation.
C2_Overwrite ==
    \A p \in SeqProcs :
        (pc[p] # "idle" /\ args[p].save_data /\ args[p].overwrite) =>
            /\ outcome[p] # "cached"
            /\ (Done(p) /\ exc[p] # "OSError" /\ ~AbortsOnMismatch(args[p])
                  /\ ~BadLutDir(args[p], dirs))
                  => Executed(p)
            /\ (Done(p) /\ AbortsOnMismatch(args[p]) /\ exc[p] # "OSError")
                  => (outcome[p] = "aborted" /\ ~Executed(p))
            /\ (Done(p) /\ BadLutDir(args[p], dirs))
                  => (exc[p] = "ValueError" /\ native[p] = <<>>)
            /\ outcome[p] = "fresh" =>
                  \A o \in Range(ExpectedFiles(args[p])) :
                      /\ isfile(files, o.file)
                      /\ files[o.file].run = run[p]

\* a call with overwrite=True is past execute() although all its files
\* existed, written by an earlier call
C2_Witness ==
    /\ pc[1] = "post"
    /\ args[1].save_data /\ args[1].overwrite
    /\ Executed(1)
    /\ AllExist(args[1], files)
    /\ \A o \in Range(ExpectedFiles(args[1])) : files[o.file].run < run[1]

(* -------------------------------- C3 ------------------------------------ *)

IsNoResult(res) == DOMAIN res = {}

\* C3 as stated: a call with save_data=True, overwrite=False that found an
\* expected file missing and has ended (it reached the cache test: neither
\* the check of topology_lut_dir nor creating the output directory failed)
\* has not returned from the cache and has invoked execute(). (A
\* call that has not invoked execute() has written nothing, so the files
\* are those it started with.)
C3_PartialAlwaysRecomputes ==
    \A p \in SeqProcs :
        (Done(p) /\ args[p].save_data /\ ~args[p].overwrite
            /\ ~AllExist(args[p], files) /\ exc[p] # "OSError"
            /\ ~BadLutDir(args[p], dirs)) =>
            /\ outcome[p] # "cached"
            /\ Executed(p)

\* C3 amended: a call with save_data=True, overwrite=False that starts with
\* at least one expected file missing does not return from the cache: it
\* leaves the cache test for initVM (or fails creating the directory, or on
\* the topology_lut_dir of levelset_fusion) with no result; a call with
\* save_data=True, overwrite=False that ends without returning from the
\* cache has invoked execute(), unless the directory could not be created,
\* levelset_fusion raised on its topology_lut_dir or lcpca_denoising stopped
\* on mismatched lists; and a dictionary returned after a computation holds
\* only images of that computation, read from the native layer after
\* execute().
PartialCacheStep(p) ==
    /\ (pc[p] = "start" /\ args[p].save_data /\ ~args[p].overwrite
          /\ ~AllExist(args[p], files) /\ pc'[p] # "start") =>
          /\ outcome'[p] # "cached"
          /\ IsNoResult(result'[p])
          /\ \/ pc'[p] = "vm"
             \/ exc'[p] = "OSError"
             \/ BadLutDir(args[p], dirs) /\ exc'[p] = "ValueError"
          /\ files' = files
    /\ (pc[p] \notin {"idle", "done"} /\ pc'[p] = "done"
          /\ args[p].save_data /\ ~args[p].overwrite
          /\ outcome'[p] # "cached" /\ exc'[p] # "OSError") =>
          IF BadLutDir(args[p], dirs)
          THEN exc'[p] = "ValueError" /\ native'[p] = <<>>
          ELSE IF AbortsOnMismatch(args[p])
          THEN outcome'[p] = "aborted" /\ ~Executed(p)'
          ELSE Executed(p)'
    /\ (pc'[p] = "done" /\ outcome'[p] = "fresh") =>
          /\ Executed(p)'
          /\ \A img \in Images(args'[p].fn, result'[p]) : img.run = run'[p]
          /\ \A st \in Range(Post(args'[p])) :
                st.op = "get" => st.name \in NativeNames(p)'
C3_PartialCache == [][\A p \in SeqProcs : PartialCacheStep(p)]_vars

\* lcpca_denoising goes on to initVM with overwrite=False: dim_file and
\* err_file exist, a denoised file is missing
C3_Witness ==
    /\ pc[1] = "vm"
    /\ args[1].fn = "lcpca_denoising"
    /\ args[1].save_data /\ ~args[1].overwrite
    /\ isfile(files, dim_file(args[1]))
    /\ isfile(files, err_file(args[1]))
    /\ \E i \in DOMAIN den_files(args[1]) : ~isfile(files, den_files(args[1])[i])

(* -------------------------------- C4 ------------------------------------ *)

\* C4: when execute() raises, the call has printed the handler's message and
\* ends by raising the exception of execute().
C4_NativeFailureVisible ==
    \A p \in SeqProcs :
        ExecuteRaised(p) =>
            /\ outcome[p] = "raised"
            /\ MsgNotClean \in Range(printed[p])
            /\ exc[p] = "JavaError"

(* -------------------------------- C5 ------------------------------------ *)

\* C5: a call of lcpca_denoising with a phase_list of another length than
\* image_list makes no native call, and when it ends (the directory having
\* been created) it has returned no result.
C5_MismatchBeforeNative ==
    \A p \in SeqProcs :
        (pc[p] # "idle" /\ AbortsOnMismatch(args[p])) =>
            /\ native[p] = <<>>
            /\ (Done(p) /\ exc[p] # "OSError") =>
                  (outcome[p] = "aborted" /\ IsNoResult(result[p]))

(* -------------------------------- C6 ------------------------------------ *)

\* C6: when a call with save_data=True has returned after a computation,
\* every expected file exists and holds the image returned for its role (for
\* 'denoised': the i-th file holds the i-th image of the list).
C6_PersistPostcondition ==
    \A p \in SeqProcs :
        (Done(p) /\ outcome[p] = "fresh" /\ args[p].save_data) =>
            \A o \in Range(ExpectedFiles(args[p])) :
                /\ isfile(files, o.file)
                /\ files[o.file] = ImageOf(result[p], o)

(* -------------------------------- C7 ------------------------------------ *)

\* C7 as stated: a call with save_data=False that has ended has invoked
\* execute().
C7_NoSaveAlwaysExecutes ==
    \A p \in SeqProcs : (Done(p) /\ ~args[p].save_data) => Executed(p)

\* C7 amended: no step of a call with save_data=False changes a file or a
\* directory, fails on the file system or returns from the cache, also when
\* every file a saving call would expect exists; unless it is a
\* levelset_fusion call that raises on its topology_lut_dir the call goes on
\* to initVM and, unless it is a lcpca_denoising call that stops on
\* mismatched lists, to execute().
NoSaveStep(p) ==
    (pc[p] \notin {"idle", "done"} /\ ~args[p].save_data) =>
        /\ files' = files
        /\ dirs' = dirs
        /\ outcome'[p] # "cached"
        /\ exc'[p] \notin {"OSError", "IOError"}
        /\ pc[p] = "start" =>
              IF BadLutDir(args[p], dirs)
              THEN pc'[p] = "done" /\ exc'[p] = "ValueError"
              ELSE pc'[p] \in {"start", "vm"}
        /\ pc'[p] = "done" =>
              IF BadLutDir(args[p], dirs)
              THEN outcome'[p] = "raised" /\ native'[p] = <<>>
              ELSE IF AbortsOnMismatch(args[p])
              THEN outcome'[p] = "aborted" /\ ~Executed(p)'
              ELSE Executed(p)'
C7_NoSave == [][\A p \in SeqProcs : NoSaveStep(p)]_vars

\* a call with save_data=False has computed and returned although every file
\* a saving call would expect exists
C7_Witness ==
    /\ Done(1)
    /\ ~args[1].save_data /\ ~args[1].overwrite
    /\ outcome[1] = "fresh"
    /\ Executed(1)
    /\ AllExist(args[1], files)

(* -------------------------------- C8 ------------------------------------ *)

\* the keys of the returned dictionary that the docstrings document (for
\* levelset_fusion: the one image it returns)
DocumentedKeys(fn) ==
    CASE fn = "flash_t2s_fitting" -> {"t2s", "r2s", "s0", "residuals"}
      [] fn = "mp2rage_t1_mapping" -> {"t1", "r1", "uni"}
      [] fn = "lcpca_denoising" -> {"denoised", "dimensions", "residuals"}
      [] fn = "levelset_fusion" -> {"result"}

\* the length of the 'denoised' list: one image per magnitude image and one
\* per phase image
DenoisedLen(a) ==
    Len(a.image_list) + (IF a.phase_none THEN 0 ELSE Len(a.phase_list))

\* a dictionary with every documented role (and a full 'denoised' list)
Complete(a, res) ==
    /\ DOMAIN res = DocumentedKeys(a.fn)
    /\ a.fn = "lcpca_denoising" => DOMAIN res.denoised = 1..DenoisedLen(a)

\* C8: a call that has ended has either returned a complete dictionary whose
\* images were all loaded from the files, or a complete dictionary whose
\* images were all computed by this call, or it has returned no image: it
\* raised (also when an output read back could not be reshaped), or stopped
\* on mismatched lists.
C8_NoPartialResults ==
    \A p \in SeqProcs :
        Done(p) =>
            \/ /\ outcome[p] = "cached"
               /\ exc[p] = "none"
               /\ Complete(args[p], result[p])
               /\ \A o \in Range(ExpectedFiles(args[p])) :
                     ImageOf(result[p], o) = files[o.file]
               /\ \A img \in Images(args[p].fn, result[p]) :
                     img.run > 0 /\ img.run < run[p]
            \/ /\ outcome[p] = "fresh"
               /\ exc[p] = "none"
               /\ Complete(args[p], result[p])
               /\ \A img \in Images(args[p].fn, result[p]) : img.run = run[p]
            \/ /\ outcome[p] \in {"raised", "aborted"}
               /\ outcome[p] = "raised" <=> exc[p] # "none"
               /\ IsNoResult(result[p])

\* a call has raised after writing some of its files: it returned nothing
C8_Witness ==
    /\ Done(1)
    /\ outcome[1] = "raised"
    /\ exc[1] = "IOError"
    /\ IsNoResult(result[1])
    /\ \E o \in Range(ExpectedFiles(args[1])) : files[o.file].run = run[1]

(* -------------------------------- C9 ------------------------------------ *)

\* C9: a dictionary returned by flash_t2s_fitting, mp2rage_t1_mapping or
\* lcpca_denoising has the documented keys, on the cache-hit path as after a
\* computation; the 'denoised' list of lcpca_denoising has one image per
\* magnitude image followed by one per phase image: after a computation the
\* i-th image is the i-th denoised output, on a cache hit the content of
\* the i-th file of den_files.
C9_FixedKeys ==
    \A p \in SeqProcs :
        (Done(p) /\ outcome[p] \in {"cached", "fresh"}
            /\ args[p].fn # "levelset_fusion") =>
            /\ DOMAIN result[p] = DocumentedKeys(args[p].fn)
            /\ args[p].fn = "lcpca_denoising" =>
                  /\ Len(result[p].denoised) = DenoisedLen(args[p])
                  /\ \A i \in 1..DenoisedLen(args[p]) :
                        IF outcome[p] = "fresh"
                        THEN result[p].denoised[i] =
                                Fresh(run[p], "denoised", i, args[p].par)
                        ELSE result[p].denoised[i] =
                                files[den_files(args[p])[i]]

\* lcpca_denoising has returned from the cache a list of magnitude and phase
\* images
C9_Witness ==
    /\ Done(1)
    /\ outcome[1] = "cached"
    /\ args[1].fn = "lcpca_denoising"
    /\ ~args[1].phase_none
    /\ Len(result[1].denoised) = Len(args[1].image_list) + Len(args[1].phase_list)

(* -------------------------------- C10 ----------------------------------- *)

\* C10: in a session that calls any of the four functions the runtime is
\* started at most once and, once running, keeps running; a call that comes
\* to initVM leaves it for the creation of its algorithm instance, without an
\* exception, whether the runtime was running or not; and a call that
\* returns from the cache has made no native call.
RuntimeStep(p) ==
    /\ vm => vm'
    /\ vmStarts' = vmStarts + (IF ~vm /\ vm' THEN 1 ELSE 0)
    /\ vmStarts' <= 1
    /\ (pc[p] = "vm" /\ pc'[p] # "vm") =>
          /\ pc'[p] = "configure"
          /\ vm'
          /\ exc'[p] = "none"
          /\ native'[p] = <<JCall("initVM", -1), JCall(Instance(args[p]), -1)>>
    /\ outcome'[p] = "cached" => native'[p] = <<>>
    /\ pc'[p] = "start" => native'[p] = <<>>
    /\ native'[p] # <<>> => native'[p][1] = JCall("initVM", -1)
C10_RuntimeOnce == [][\A p \in SeqProcs : RuntimeStep(p)]_vars

\* a call of another function than the one that started the runtime is past
\* initVM, which found the runtime running
C10_Witness ==
    /\ pc[1] = "configure"
    /\ run[1] = 2
    /\ args[1].fn = "levelset_fusion"
    /\ \E f \in AllFiles : isfile(files, f) /\ f.suffix = "qt2fit-t2s"
    /\ vm /\ vmStarts = 1

(* -------------------------------- C11 ----------------------------------- *)

\* the positions of execute() among the native calls of the call of p
ExecutePositions(p) ==
    {i \in DOMAIN native[p] : native[p][i].name = "execute"}

\* the native calls that read the outputs, in the order of the code
Getters(a) ==
    LET gets == SelectSeq(Post(a), LAMBDA st : st.op = "get")
    IN  [i \in DOMAIN gets |-> JCall(gets[i].name, gets[i].idx)]

\* the native call that reads the output an image img was built from
GetterOf(a, img) ==
    LET st == CHOOSE x \in Range(Post(a)) :
                  x.op = "get" /\ x.key = img.key /\ x.pos = img.idx
    IN  JCall(st.name, st.idx)

\* the native calls up to the last setter before execute()
Configured(a) ==
    <<JCall("initVM", -1), JCall(Instance(a), -1)>> \o ConfigureCalls(a)

\* the files the current call of p has written
Written(p) == {f \in AllFiles : files[f].run = run[p] /\ run[p] > 0}

Active(p) == pc[p] \notin {"idle", "done"}

\* the files the call of p has still to write, or is writing
ToWrite(p) == {st.file : st \in {x \in Range(todo[p]) : x.op = "save"}}

\* (a) two calls have both missed the cache, have both run the native
\* computation, and write the same paths: one has written a file the other
\* is about to write
BothCompute(p, q) ==
    /\ p # q
    /\ Active(p) /\ Active(q)
    /\ Executed(p) /\ Executed(q)
    /\ Written(p) \cap ToWrite(q) # {}

\* (b) the call of p has returned from the cache a file that was not written
\* to its end
TornReturned(p) ==
    /\ Done(p)
    /\ outcome[p] = "cached"
    /\ \E img \in Images(args[p].fn, result[p]) : img = Torn(img)

\* C12: when the caller serialises the calls per output path, no two calls
\* are under way together, no call computes what another one is computing,
\* a file is torn only while the one call under way is writing it, and no
\* call returns a torn file from the cache: a cache hit returns the files as
\* they are on disk; without the serialisation both (a) and (b) happen (the
\* witness).
C12_SerialisedCache ==
    serial =>
        /\ \A p \in Procs, q \in Procs :
              /\ (p # q) => ~(Active(p) /\ Active(q))
              /\ ~BothCompute(p, q)
        /\ \A p \in Procs :
              /\ ~TornReturned(p)
              /\ (Done(p) /\ outcome[p] = "cached") =>
                    result[p] = Load(args[p], files)
        /\ \A f \in AllFiles :
              files[f] = Torn(files[f]) =>
                  \E p \in Procs : pc[p] = "saving" /\ Head(todo[p]).file = f

\* without serialisation: a call has returned a torn file from the cache
\* while another call is in its save sequence, and that other call and an
\* earlier one have both computed and written the same paths
C12_Witness ==
    /\ ~serial
    /\ TornReturned(1)
    /\ pc[2] = "saving"
    /\ Executed(2)
    /\ \E f \in ToWrite(2) :
          /\ files[f].run \notin {0, run[1], run[2]}
          /\ files[f] # Torn(files[f])

(* -------------------------------- C13 ----------------------------------- *)

\* C13: the element (i, j, k) of a volume of dimensions (X, Y, Z) is at
\* position i + X*j + X*Y*k of its column-major flattening; an array that
\* comes out of the reshape has the dimensions of the first input and holds
\* at (i, j, k) the element at position i + X*j + X*Y*k of the flat array;
\* so when the native layer hands back the array that was pushed, the
\* reshaped array is the input volume.
C13_RoundTripShape ==
    LET X == array.dims[1]
        Y == array.dims[2]
        At(idx) == idx[1] + X * idx[2] + X * Y * idx[3] + 1
    IN  /\ array.stage \in {"pushed", "got", "reshaped", "ValueError"} =>
              /\ Len(array.pushed) = Size(array.dims)
              /\ \A idx \in Index(array.dims) :
                    array.pushed[At(idx)] = array.data[idx]
        /\ array.stage = "reshaped" =>
              /\ DOMAIN array.out = Index(array.dims)
              /\ DOMAIN array.out = DOMAIN array.data
              /\ \A idx \in Index(array.dims) :
                    array.out[idx] = array.flat[At(idx)]
              /\ array.flat = array.pushed => array.out = array.data
        /\ array.stage = "ValueError" => Len(array.flat) # Size(array.dims)

\* a volume with three different extents and all voxels different has gone
\* through flatten and reshape
C13_Witness ==
    /\ array.stage = "reshaped"
    /\ array.dims = <<2, 3, 1>>
    /\ array.flat = array.pushed
    /\ array.out = array.data
    /\ \A i \in Index(array.dims), j \in Index(array.dims) :
          i # j => array.data[i] # array.data[j]

(* -------------------------------- C14 ----------------------------------- *)

\* the voxel values of the output arrays: numbers from 1 on, and NaN
NaN == -1
OutputArrays == {<<1, 2>>, <<3, 2>>, <<NaN, 1>>, <<NaN, NaN>>}

Numbers(arr) == {arr[i] : i \in DOMAIN arr} \ {NaN}

\* np.nanmin, np.nanmax: the extreme values NaNs left out, NaN when there
\* is no other value
nanmin(arr) ==
    IF Numbers(arr) = {} THEN NaN
    ELSE CHOOSE x \in Numbers(arr) : \A y \in Numbers(arr) : x <= y
nanmax(arr) ==
    IF Numbers(arr) = {} THEN NaN
    ELSE CHOOSE x \in Numbers(arr) : \A y \in Numbers(arr) : x >= y

\* the affine and the header of the i-th input image; the header is an
\* object, held in the heap at position 1
Affine(i) == <<"affine", i>>
FirstHeader == 1

\* "header['cal_min'] = ...; header['cal_max'] = ...": the header object
\* itself is changed
SetCal(heap, header, lo, hi) ==
    [heap EXCEPT ![header] = [cal_min |-> lo, cal_max |-> hi]]

\* (mutant) an image that keeps the header object it is given
Nifti1Image_same_header(data, affine, header, heap) ==
    [image |-> [data |-> data, affine |-> affine, header |-> header],
     heap |-> heap]

\* nb.Nifti1Image(data, affine, header): the image gets a copy of the header
\* (a new object) and the affine
Nifti1Image(data, affine, header, heap) ==
    [image |-> [data |-> data, affine |-> affine, header |-> Len(heap) + 1],
     heap |-> Append(heap, heap[header])]

\* the numbers of images the calls build one after another
OutputCounts == {Len(Getters(a)) : a \in {b \in Default : ~mismatch(b)}}

\* after a successful execute(): affine and header of the first input at
\* hand, left outputs to wrap
InitHeader ==
    /\ files = [f \in AllFiles |-> NoFile]
    /\ dirs = {"in"}
    /\ vm = FALSE
    /\ vmStarts = 0
    /\ ncalls = 0
    /\ ndeleted = 0
    /\ serial = TRUE
    /\ \E n \in OutputCounts :
          array = [stage |-> "header", left |-> n, affine |-> Affine(1),
                   heap |-> <<[cal_min |-> 0, cal_max |-> 0]>>,
                   data |-> <<>>, images |-> <<>>]
    /\ pc = [p \in Procs |-> "idle"]
    /\ args = [p \in Procs |-> NoArgs]
    /\ run = [p \in Procs |-> 0]
    /\ native = [p \in Procs |-> <<>>]
    /\ printed = [p \in Procs |-> <<>>]
    /\ todo = [p \in Procs |-> <<>>]
    /\ outcome = [p \in Procs |-> "none"]
    /\ exc = [p \in Procs |-> "none"]
    /\ result = [p \in Procs |-> NoResult]
    /\ loaded = [p \in Procs |-> <<>>]

\* "header['cal_min'] = np.nanmin(t2s_data); header['cal_max'] =
\* np.nanmax(t2s_data)" for the next output array
AdaptHeader(data) ==
    /\ array.stage = "header"
    /\ array.left > 0
    /\ array' = [array EXCEPT
                    !.stage = "adapted",
                    !.data = data,
                    !.heap = SetCal(@, FirstHeader, nanmin(data), nanmax(data))]
    /\ UNCHANGED progVars

\* "t2s = nb.Nifti1Image(t2s_data, affine, header)"
CreateImage ==
    LET new == Nifti1Image(array.data, array.affine, FirstHeader, array.heap)
    IN
    /\ array.stage = "adapted"
    /\ array' = [array EXCEPT !.stage = "header",
                              !.left = @ - 1,
                              !.heap = new.heap,
                              !.images = Append(@, new.image)]
    /\ UNCHANGED progVars

NextHeader ==
    \/ \E data \in OutputArrays : AdaptHeader(data)
    \/ CreateImage

SpecHeader == InitHeader /\ [][NextHeader]_vars

\* C14: every image built after a computation has the affine of the first
\* input, and its header holds as cal_min and cal_max the nanmin and nanmax
\* of its own array, also after the header object has been adapted for the
\* images built later.
C14_HeaderPropagation ==
    \A i \in DOMAIN array.images :
        LET img == array.images[i]
        IN  /\ img.affine = Affine(1)
            /\ array.heap[img.header].cal_min = nanmin(img.data)
            /\ array.heap[img.header].cal_max = nanmax(img.data)

\* all images of a call are built, two of them with different ranges, and
\* the header object was last adapted to another range than the first
\* image's
C14_Witness ==
    /\ array.stage = "header"
    /\ array.left = 0
    /\ Len(array.images) >= 3
    /\ nanmin(array.images[1].data) # nanmin(array.images[2].data)
    /\ nanmax(array.images[1].data) # array.heap[FirstHeader].cal_max
    /\ array.heap[array.images[1].header].cal_max = nanmax(array.images[1].data)

(* -------------------------------- C15 ----------------------------------- *)

\* te_list of k echo times
EchoTimes(k) == [i \in 1..k |-> 10 * i]

\* the calls that differ in the lists they hand over: flash_t2s_fitting with
\* any number of echo times, lcpca_denoising with and without phase_list,
\* levelset_fusion; nothing is saved
IndexedCalls ==
    {ArgsOf("flash_t2s_fitting", Lists(MagnitudeList(n), TRUE, <<>>, EchoTimes(k)),
            FALSE, FALSE, None, None, 1) :
        n \in 1..MaxImages, k \in 1..MaxImages + 1}
    \cup {a \in Default : a.fn \in {"lcpca_denoising", "levelset_fusion"}
                          /\ ~a.save_data /\ ~a.overwrite
                          /\ a.file_name = None}

NextIndexed ==
    \/ \E p \in SeqProcs, a \in IndexedCalls : Call(p, a)
    \/ \E p \in SeqProcs : Start(p, TRUE)
    \/ \E p \in SeqProcs : StartVM(p)
    \/ \E p \in SeqProcs : Configure(p)
    \/ \E p \in SeqProcs, ok \in BOOLEAN : Execute(p, ok)
    \/ \E p \in SeqProcs : \E bad \in 0..Len(todo[p]) : Reconstruct(p, bad)
    \/ \E p \in SeqProcs : ReturnFresh(p)

SpecIndexed == Init /\ [][NextIndexed]_vars

\* the setter that declares the number of images, and the indexed setters
\* the call uses
CountSetter(a) ==
    CASE a.fn = "flash_t2s_fitting" -> "setNumberOfEchoes"
      [] a.fn = "lcpca_denoising" -> "setImageNumber"
      [] a.fn = "levelset_fusion" -> "setNumberOfImages"
IndexedSetters(a) ==
    CASE a.fn = "flash_t2s_fitting" -> {"setEchoImageAt", "setEchoTimeAt"}
      [] a.fn = "lcpca_denoising" ->
            IF a.phase_none THEN {"setMagnitudeImageAt"}
            ELSE {"setMagnitudeImageAt", "setPhaseImageAt"}
      [] a.fn = "levelset_fusion" -> {"setLevelsetImageAt"}

\* the positions of the calls of one setter among the native calls of p
CallsOf(p, name) == {i \in DOMAIN native[p] : native[p][i].name = name}

\* C15: once a call of flash_t2s_fitting, lcpca_denoising or levelset_fusion
\* has made all its setter calls, the number of images was declared once,
\* with the length of the image list and before every indexed setter, and
\* each indexed setter was called exactly once with each index of
\* 0..count-1 and with no other index.
C15_IndexBindings ==
    \A p \in SeqProcs :
        LET a == args[p]
            count == Len(a.image_list)
        IN  (a.fn \in {"flash_t2s_fitting", "lcpca_denoising", "levelset_fusion"}
                /\ (pc[p] \in {"execute", "post"} \/ Executed(p))) =>
            /\ Cardinality(CallsOf(p, CountSetter(a))) = 1
            /\ \A c \in CallsOf(p, CountSetter(a)) :
                  /\ native[p][c].idx = count
                  /\ \A s \in IndexedSetters(a) : \A i \in CallsOf(p, s) : c < i
            /\ \A s \in IndexedSetters(a) :
                  /\ \A i \in CallsOf(p, s) : native[p][i].idx \in 0..count - 1
                  /\ \A k \in 0..count - 1 :
                        Cardinality({i \in CallsOf(p, s) :
                                        native[p][i].idx = k}) = 1

(* -------------------------------- C16 ----------------------------------- *)

\* the runs that wrote the expected files of a call
RunsOf(a, fs) == {fs[o.file].run : o \in Range(ExpectedFiles(a))}

\* C16: between the calls of a sequential session, whenever all expected
\* files of the last call exist they were all written by one call, and a
\* cache hit returns the images of one computation.
C16_CacheOneRun ==
    \A p \in SeqProcs :
        (Done(p) /\ args[p].save_data) =>
            /\ AllExist(args[p], files) =>
                  Cardinality(RunsOf(args[p], files)) = 1
            /\ outcome[p] = "cached" =>
                  Cardinality({img.run : img \in Images(args[p].fn, result[p])}) = 1

(* -------------------------------- C17 ----------------------------------- *)

\* C17: the paths a lcpca_denoising call with save_data=True computes for
\* its denoised outputs are pairwise distinct, so that after a computation
\* each denoised file holds the image of its own list position.
C17_DistinctDenoisedPaths ==
    \A p \in SeqProcs :
        LET a == args[p]
        IN  (a.fn = "lcpca_denoising" /\ a.save_data /\ pc[p] # "idle") =>
            /\ \A i \in DOMAIN den_files(a), j \in DOMAIN den_files(a) :
                  i # j => den_files(a)[i] # den_files(a)[j]
            /\ (Done(p) /\ outcome[p] = "fresh") =>
                  \A i \in DOMAIN den_files(a) :
                      files[den_files(a)[i]] = Fresh(run[p], "denoised", i, a.par)

(* -------------------------------- C18 ----------------------------------- *)

\* the sessions whose calls save their outputs and vary the algorithm
\* parameters
ParamCalls == {a \in ArgSet : a.save_data}

NextParams ==
    \/ \E p \in SeqProcs, a \in ParamCalls : Call(p, a) /\ OneFunction(p, a)
    \/ \E p \in SeqProcs, ok \in BOOLEAN : Start(p, ok)
    \/ \E p \in SeqProcs : StartVM(p)
    \/ \E p \in SeqProcs : Configure(p)
    \/ \E p \in SeqProcs, ok \in BOOLEAN : Execute(p, ok)
    \/ \E p \in SeqProcs : \E bad \in 0..Len(todo[p]) : Reconstruct(p, bad)
    \/ \E p \in SeqProcs, ok \in BOOLEAN : SaveVolume(p, ok)
    \/ \E p \in SeqProcs : ReturnFresh(p)

SpecParams == Init /\ [][NextParams]_vars

\* two calls of one function agree on save_data, overwrite, output_dir,
\* file_name and the name of the first input
AgreeOnFirst(a, b) ==
    /\ a.fn = b.fn
    /\ a.save_data = b.save_data
    /\ a.overwrite = b.overwrite
    /\ a.output_dir = b.output_dir
    /\ a.file_name = b.file_name
    /\ a.image_list[1] = b.image_list[1]

\* ... and, for lcpca_denoising, on the names of all magnitude and phase
\* images
AgreeOnInputs(a, b) ==
    /\ AgreeOnFirst(a, b)
    /\ a.fn = "lcpca_denoising" =>
          /\ a.image_list = b.image_list
          /\ a.phase_none = b.phase_none
          /\ a.phase_list = b.phase_list

\* the call of p has just passed the cache test (the files are those it saw)
\* and a call b would have reached the test and come out of it the same way
SameDecision(p, b) ==
    /\ (Done(p) /\ outcome[p] = "cached") =>
          /\ ~BadLutDir(b, dirs)
          /\ Cached(b, files)
          /\ Load(b, files) = result[p]
    /\ pc[p] = "vm" => ~BadLutDir(b, dirs) /\ ~Cached(b, files)

\* C18 as stated: any call that agrees with the call of p on save_data,
\* overwrite, output_dir, file_name and the first input takes the same path
\* and, on a cache hit, returns the same images.
C18_SameDecisionOnFirst ==
    \A p \in SeqProcs :
        args[p].save_data =>
            \A b \in ArgSet : AgreeOnFirst(args[p], b) => SameDecision(p, b)

\* C18 amended: ... and, for lcpca_denoising, on the names of all magnitude
\* and phase images, and that pass levelset_fusion's check of
\* topology_lut_dir ...; the algorithm parameters play no part.
C18_SameDecision ==
    \A p \in SeqProcs :
        args[p].save_data =>
            \A b \in ArgSet :
                (AgreeOnInputs(args[p], b) /\ ~BadLutDir(b, dirs))
                    => SameDecision(p, b)

\* a call with other algorithm parameters than the call that wrote the files
\* has returned the stored images
C18_Witness ==
    /\ Done(1)
    /\ outcome[1] = "cached"
    /\ args[1].par = 2
    /\ \A img \in Images(args[1].fn, result[1]) : img.par = 1 /\ img.run = 1

====
